---- MODULE Spec2Model ----
(***************************************************************************)
(* StockNexus: the inventory_items / alerts tables, the row trigger        *)
(* check_low_stock_by_name() and the row-level-security policies that gate *)
(* writes to inventory_items.                                              *)
(*                                                                         *)
(* The sources define check_low_stock_by_name() twice with CREATE OR       *)
(* REPLACE: once in src/unnamed/part_000 (count the unresolved alerts,     *)
(* resolve above 10) and once in the migration 20251207134237 (delete the  *)
(* unresolved alerts, re-create below 10).  Which body the database runs   *)
(* depends on the order in which the two scripts were applied, which the   *)
(* sources do not fix; `deployed` holds the body that was applied last.    *)
(*                                                                         *)
(* Further specifications cover the statements on inventory_items with the *)
(* outcome each caller sees (SpecAccess), the grievances table             *)
(* (SpecGrievances), the registration requests with the Users page and the *)
(* approve-user and create-admin functions (SpecRegistration), the         *)
(* accounts those functions create step by step and the login page         *)
(* (SpecAccounts), the objects of the grievance-attachments bucket         *)
(* (SpecStorage) and the Scrap Management page, whose handler works from   *)
(* the copy of the inventory the page last fetched (SpecScrap).            *)
(***************************************************************************)
EXTENDS Integers, FiniteSets, Sequences, Bags, TLC

(* ----------------------------- bounds ---------------------------------- *)
MaxItems == 2
MaxAlerts == 2
(* The cap on alert rows while two transactions overlap. *)
MaxConcAlerts == 3
MaxGrievances == 2
MaxRequests == 2
(* The cap on the rows of scrap_items.                                     *)
MaxScrapItems == 2

(* --------------------------- input domains ----------------------------- *)
NULL == "NULL"
(* A NULL uuid (ids are numbers in the model). *)
NoId == 0
Names == {"Microscope", "Centrifuge"}
Departments == {"Physics", "CSE"}
Quantities == {0, 5, 11}
Thresholds == {5}
ItemIds == 1..MaxItems
Users == {"admin1", "hodPhysics", "staffPhysics", "nobody"}
Versions == {"part_000", "20251207134237"}
(* The database sessions that may have a transaction open at one time.     *)
Writers == {"w1", "w2"}
(* The users with the Scrap Management page open.                          *)
ScrapUsers == {"admin1", "hodPhysics"}

(* The user_roles table: one row per approved user, none for "nobody".     *)
user_roles ==
  { [user_id |-> "admin1", role |-> "admin", department |-> "CSE"],
    [user_id |-> "hodPhysics", role |-> "hod", department |-> "Physics"],
    [user_id |-> "staffPhysics", role |-> "staff", department |-> "Physics"] }

VARIABLES deployed, inventory_items, alerts, last, txn,
          grievances, registration_requests, auth_users,
          profiles, account_roles, scrap_items, inventoryItems, objects

vars == <<deployed, inventory_items, alerts, last, txn,
          grievances, registration_requests, auth_users,
          profiles, account_roles, scrap_items, inventoryItems, objects>>

(* The rows the functions create next to an account, the scrap table with  *)
(* the Scrap Management pages' copies of the inventory, the tables the     *)
(* inventory statements do not touch, and the tables the grievance and     *)
(* registration statements do not touch.                                   *)
account_tables == <<profiles, account_roles>>
scrap_tables == <<scrap_items, inventoryItems>>
other_tables == <<grievances, registration_requests, auth_users,
                  account_tables, objects>>
inventory_tables == <<deployed, inventory_items, alerts, txn>>

(* ------------------------- authorization ------------------------------- *)
has_role(_user_id, _role) ==
  \E r \in user_roles : r.user_id = _user_id /\ r.role = _role

(* SELECT department FROM user_roles WHERE user_id = _user_id LIMIT 1:     *)
(* the set of values the query may return (NULL when no row matches).      *)
get_user_department(_user_id) ==
  LET rows == {r \in user_roles : r.user_id = _user_id}
  IN IF rows = {} THEN {NULL} ELSE {r.department : r \in rows}

(* department = get_user_department(auth.uid()); a comparison with NULL is *)
(* not true, so the policy rejects.                                        *)
DepartmentIsCallers(uid, department) ==
  \E d \in get_user_department(uid) : d # NULL /\ d = department

AdminsCanManageAllItems(uid, row) == has_role(uid, "admin")

(* The policy without its department comparison.                           *)
HODsCanInsertItems_NoDept(uid, row) == has_role(uid, "hod")

HODsCanInsertItems(uid, row) ==
  has_role(uid, "hod") /\ DepartmentIsCallers(uid, row.department)

(* The UPDATE policy without its department comparison.                    *)
HODsCanUpdateItems_NoDept(uid, row) == has_role(uid, "hod")

HODsCanUpdateItems(uid, row) ==
  has_role(uid, "hod") /\ DepartmentIsCallers(uid, row.department)

HODsCanDeleteItems(uid, row) ==
  has_role(uid, "hod") /\ DepartmentIsCallers(uid, row.department)

(* Permissive policies of one command are combined with OR.                *)
can_insert_inventory(uid, row) ==
  AdminsCanManageAllItems(uid, row) \/ HODsCanInsertItems(uid, row)

can_update_inventory(uid, row) ==
  AdminsCanManageAllItems(uid, row) \/ HODsCanUpdateItems(uid, row)

can_delete_inventory(uid, row) ==
  AdminsCanManageAllItems(uid, row) \/ HODsCanDeleteItems(uid, row)

(* The policies of scrap_items.                                            *)
AdminsCanManageAllScrapItems(uid, row) == has_role(uid, "admin")

HODsCanViewScrapItems(uid, row) ==
  has_role(uid, "hod") /\ DepartmentIsCallers(uid, row.department)

HODsCanInsertScrapItems(uid, row) ==
  has_role(uid, "hod") /\ DepartmentIsCallers(uid, row.department)

can_read_scrap(uid, row) ==
  AdminsCanManageAllScrapItems(uid, row) \/ HODsCanViewScrapItems(uid, row)

can_insert_scrap(uid, row) ==
  AdminsCanManageAllScrapItems(uid, row) \/ HODsCanInsertScrapItems(uid, row)

(* ----------------------- the reconciliation trigger -------------------- *)
RECURSIVE SumQuantity(_, _)
SumQuantity(items, ids) ==
  IF ids = {} THEN 0
  ELSE LET i == CHOOSE x \in ids : TRUE
       IN items[i].quantity + SumQuantity(items, ids \ {i})

(* SELECT id FROM inventory_items WHERE name = NEW.name AND department =   *)
(* NEW.department                                                          *)
SameNameAndDepartment(items, new) ==
  {i \in DOMAIN items : items[i].name = new.name
                        /\ items[i].department = new.department}

(* The sum with the department comparison left out of the WHERE clause.   *)
total_quantity_name_only(items, new) ==
  SumQuantity(items, {i \in DOMAIN items : items[i].name = new.name})

(* SELECT COALESCE(SUM(quantity), 0)                                       *)
total_quantity(items, new) ==
  SumQuantity(items, SameNameAndDepartment(items, new))

(* The alerts table is a bag of rows (the model leaves out the uuid key,   *)
(* which nothing reads).  IsUnresolvedStockAlert is the WHERE clause the   *)
(* trigger uses to find the alerts of the rows named like NEW.             *)
IsUnresolvedStockAlert(items, new, a) ==
  /\ a.item_id \in SameNameAndDepartment(items, new)
  /\ a.alert_type \in {"low_stock", "out_of_stock"}
  /\ a.is_resolved = FALSE

RECURSIVE CountRows(_, _)
CountRows(b, rows) ==
  IF rows = {} THEN 0
  ELSE LET r == CHOOSE x \in rows : TRUE
       IN b[r] + CountRows(b, rows \ {r})

UnresolvedStockAlerts(items, alts, new) ==
  {a \in BagToSet(alts) : IsUnresolvedStockAlert(items, new, a)}

(* SELECT COUNT( * ) FROM alerts WHERE ...                                 *)
existing_alert_count(items, alts, new) ==
  CountRows(alts, UnresolvedStockAlerts(items, alts, new))

(* The rows of a bag mapped through the function f, copies kept.          *)
MapRows(alts, f) ==
  LET img == {f[a] : a \in BagToSet(alts)}
  IN [r \in img |-> CountRows(alts, {a \in BagToSet(alts) : f[a] = r})]

(* The rows (with their copies) that a statement's WHERE clause selects.   *)
SelectRows(alts, rows) ==
  [a \in BagToSet(alts) \cap rows |-> alts[a]]

(* UPDATE alerts SET is_resolved = true, resolved_at = now()               *)
Resolved(a) == [a EXCEPT !.is_resolved = TRUE, !.resolved_at = "now"]

(* The INSERT with the severity of the other branch.                       *)
NewAlert_medium(new, type, sev, total) ==
  [item_id |-> new.id, alert_type |-> type,
   severity |-> "medium", is_resolved |-> FALSE, resolved_at |-> NULL,
   message |-> total]

NewAlert(new, type, sev, total) ==
  [item_id |-> new.id, alert_type |-> type,
   severity |-> sev, is_resolved |-> FALSE, resolved_at |-> NULL,
   message |-> total]

(* What one run of the trigger does to alerts: the rows its UPDATE         *)
(* resolves, the rows its DELETE removes and the rows it INSERTs.          *)
Statements(upd, del, ins) == [update |-> upd, delete |-> del, insert |-> ins]

(* The trigger as it would be with the row's own low_stock_threshold in    *)
(* place of the fixed 10.                                                  *)
check_low_stock_by_threshold(items, alts, new) ==
  LET total == total_quantity(items, new)
      existing == existing_alert_count(items, alts, new)
      unresolved == SelectRows(alts, UnresolvedStockAlerts(items, alts, new))
  IN IF total > new.low_stock_threshold
       THEN Statements(unresolved, EmptyBag, EmptyBag)
     ELSE IF total = 0 /\ existing = 0
       THEN Statements(EmptyBag, EmptyBag,
                       SetToBag({NewAlert(new, "out_of_stock", "high", 0)}))
     ELSE IF total > 0 /\ existing = 0
       THEN Statements(EmptyBag, EmptyBag,
                       SetToBag({NewAlert(new, "low_stock", "medium", total)}))
     ELSE Statements(EmptyBag, EmptyBag, EmptyBag)

(* The trigger without its count of the unresolved alerts.                 *)
check_low_stock_by_name_uncounted(items, alts, new) ==
  LET total == total_quantity(items, new)
      unresolved == SelectRows(alts, UnresolvedStockAlerts(items, alts, new))
  IN IF total > 10
       THEN Statements(unresolved, EmptyBag, EmptyBag)
     ELSE IF total = 0
       THEN Statements(EmptyBag, EmptyBag,
                       SetToBag({NewAlert(new, "out_of_stock", "high", 0)}))
     ELSE Statements(EmptyBag, EmptyBag,
                     SetToBag({NewAlert(new, "low_stock", "medium", total)}))

(* The body in src/unnamed/part_000.                                       *)
check_low_stock_by_name(items, alts, new) ==
  LET total == total_quantity(items, new)
      existing == existing_alert_count(items, alts, new)
      unresolved == SelectRows(alts, UnresolvedStockAlerts(items, alts, new))
  IN IF total > 10
       THEN Statements(unresolved, EmptyBag, EmptyBag)
     ELSE IF total = 0 /\ existing = 0
       THEN Statements(EmptyBag, EmptyBag,
                       SetToBag({NewAlert(new, "out_of_stock", "high", 0)}))
     ELSE IF total <= 10 /\ total > 0 /\ existing = 0
       THEN Statements(EmptyBag, EmptyBag,
                       SetToBag({NewAlert(new, "low_stock", "medium", total)}))
     ELSE Statements(EmptyBag, EmptyBag, EmptyBag)

(* The body in the migration 20251207134237.                               *)
check_low_stock_by_name_20251207(items, alts, new) ==
  LET total == total_quantity(items, new)
      unresolved == SelectRows(alts, UnresolvedStockAlerts(items, alts, new))
  IN IF total = 0
       THEN Statements(EmptyBag, unresolved,
                       SetToBag({NewAlert(new, "out_of_stock", "high", 0)}))
     ELSE IF total < 10
       THEN Statements(EmptyBag, unresolved,
                       SetToBag({NewAlert(new, "low_stock", "medium", total)}))
     ELSE Statements(EmptyBag, unresolved, EmptyBag)

(* The statements the deployed body runs for the written row `new`.        *)
TriggerStatements(version, items, alts, new) ==
  IF version = "part_000"
  THEN check_low_stock_by_name(items, alts, new)
  ELSE check_low_stock_by_name_20251207(items, alts, new)

(* alerts after the statements st have run.                                *)
ApplyStatements(alts, st) ==
  ((alts (-) st.update) (-) st.delete)
    (+) MapRows(st.update, [a \in BagToSet(st.update) |-> Resolved(a)])
    (+) st.insert

(* The alerts table after the trigger, run with nothing else in flight.    *)
Trigger(version, items, alts, new) ==
  ApplyStatements(alts, TriggerStatements(version, items, alts, new))

(* ------------------------------ state ---------------------------------- *)
(* The rows the statements write: three (name, department) groups.         *)
ItemGroups == {<<"Microscope", "Physics">>, <<"Microscope", "CSE">>,
               <<"Centrifuge", "Physics">>}

Rows == {r \in [name : Names, department : Departments,
                quantity : Quantities, low_stock_threshold : Thresholds] :
           <<r.name, r.department>> \in ItemGroups}

WithId(id, row) ==
  [id |-> id, name |-> row.name, department |-> row.department,
   quantity |-> row.quantity, low_stock_threshold |-> row.low_stock_threshold]

(* The last statement that ran against inventory_items: the command, the  *)
(* caller (auth.uid()), the id of the row it wrote (the trigger's NEW),    *)
(* its outcome and the total the trigger computed.  A statement the        *)
(* policies reject changes nothing and is not a step of the model.         *)
NoStatement ==
  [op |-> "none", caller |-> NULL, id |-> NoId, outcome |-> "none",
   total_quantity |-> 0]

Statement(op, caller, id, outcome, total) ==
  [op |-> op, caller |-> caller, id |-> id, outcome |-> outcome,
   total_quantity |-> total]

(* A session with no transaction open.                                    *)
NoTxn == [open |-> FALSE]

Init ==
  /\ deployed \in Versions
  /\ inventory_items = <<>>
  /\ alerts = EmptyBag
  /\ last = NoStatement
  /\ txn = [w \in Writers |-> NoTxn]
  /\ grievances = <<>>
  /\ registration_requests = <<>>
  /\ auth_users = {}
  /\ profiles = {}
  /\ account_roles = {}
  /\ scrap_items = EmptyBag
  /\ inventoryItems = [u \in ScrapUsers |-> <<>>]
  /\ objects = {}

(* The write with a trigger that swallows the error of its statement on    *)
(* alerts (EXCEPTION WHEN OTHERS THEN RETURN NEW).                         *)
WriteThenTrigger_swallow(op, caller, items, new, raises) ==
  LET after == Trigger(deployed, items, alerts, new)
  IN /\ BagCardinality(after) <= MaxAlerts
     /\ raises => after # alerts
     /\ inventory_items' = items
     /\ alerts' = IF raises THEN alerts ELSE after
     /\ last' = Statement(op, caller, new.id, "ok",
                          total_quantity(items, new))

(* The write and the AFTER ROW trigger run in one transaction: the         *)
(* trigger reads the table with the written row in it, and an error raised *)
(* by one of its statements on alerts (the function has no EXCEPTION       *)
(* block) aborts the write.                                                *)
WriteThenTrigger(op, caller, items, new, raises) ==
  LET after == Trigger(deployed, items, alerts, new)
  IN IF raises
       THEN /\ after # alerts
            /\ UNCHANGED <<inventory_items, alerts>>
            /\ last' = Statement("rollback", NULL, NoId, "aborted", 0)
     ELSE /\ BagCardinality(after) <= MaxAlerts
          /\ inventory_items' = items
          /\ alerts' = after
          /\ last' = Statement(op, caller, new.id, "ok",
                               total_quantity(items, new))

FreeItemId ==
  CHOOSE i \in ItemIds : /\ i \notin DOMAIN inventory_items
                         /\ \A j \in 1..(i-1) : j \in DOMAIN inventory_items

(* INSERT INTO inventory_items, one row (AddItem.tsx handleSubmit).        *)
InsertItem(caller, row, raises) ==
  /\ \E i \in ItemIds : i \notin DOMAIN inventory_items
  /\ can_insert_inventory(caller, row)
  /\ WriteThenTrigger("insert", caller,
                      (FreeItemId :> row) @@ inventory_items,
                      WithId(FreeItemId, row), raises)
  /\ UNCHANGED <<deployed, txn, other_tables, scrap_tables>>

(* UPDATE inventory_items SET ... WHERE id = id.  The row must pass a      *)
(* policy's USING to be visible to the command and, the policies having no *)
(* WITH CHECK, the new row must pass it too.                               *)
UpdateItem(caller, id, row, raises) ==
  /\ id \in DOMAIN inventory_items
  /\ can_update_inventory(caller, inventory_items[id])
  /\ can_update_inventory(caller, row)
  /\ WriteThenTrigger("update", caller,
                      [inventory_items EXCEPT ![id] = row],
                      WithId(id, row), raises)
  /\ UNCHANGED <<deployed, txn, other_tables, scrap_tables>>

(* alerts.item_id and scrap_items.item_id REFERENCES inventory_items(id)   *)
(* ON DELETE SET NULL                                                      *)
OnDeleteSetNull(alts, id) ==
  LET SetNull(a) == IF a.item_id = id THEN [a EXCEPT !.item_id = NoId] ELSE a
  IN MapRows(alts, [a \in BagToSet(alts) |-> SetNull(a)])

(* DELETE FROM inventory_items WHERE id = id (AdminDashboard.tsx           *)
(* handleDeleteItem, ScrapManagement.tsx handleScrapItem).  No trigger.    *)
DeleteItem(caller, id) ==
  /\ id \in DOMAIN inventory_items
  /\ can_delete_inventory(caller, inventory_items[id])
  /\ inventory_items' =
        [i \in DOMAIN inventory_items \ {id} |-> inventory_items[i]]
  /\ alerts' = OnDeleteSetNull(alerts, id)
  /\ scrap_items' = OnDeleteSetNull(scrap_items, id)
  /\ last' = Statement("delete", caller, id, "ok", 0)
  /\ UNCHANGED <<deployed, txn, other_tables, inventoryItems>>

Next ==
  \/ \E caller \in Users, row \in Rows, raises \in BOOLEAN :
        InsertItem(caller, row, raises)
  \/ \E caller \in Users, id \in ItemIds, row \in Rows, raises \in BOOLEAN :
        UpdateItem(caller, id, row, raises)
  \/ \E caller \in Users, id \in ItemIds : DeleteItem(caller, id)

Spec == Init /\ [][Next]_vars

(* ------------------- two transactions in flight ------------------------ *)
(* Each session runs one write of inventory_items with its trigger as a    *)
(* transaction of its own.  Under READ COMMITTED the trigger's queries see *)
(* the committed rows and the transaction's own write, and nothing another *)
(* open transaction has done; the transaction's effects become visible     *)
(* when it commits.                                                        *)
(* The two sessions write rows of one (name, department) group.           *)
RacedRows == {r \in Rows : r.name = "Microscope" /\ r.department = "Physics"}

Open == {w \in Writers : txn[w].open}

(* The rows an open transaction has written are locked until it ends.      *)
LockedIds == {txn[w].id : w \in Open}

RECURSIVE PendingInserts(_)
PendingInserts(ws) ==
  IF ws = {} THEN 0
  ELSE LET w == CHOOSE x \in ws : TRUE
       IN BagCardinality(txn[w].st.insert) + PendingInserts(ws \ {w})

FreeItemIdInFlight ==
  CHOOSE i \in ItemIds :
     /\ i \notin DOMAIN inventory_items \cup LockedIds
     /\ \A j \in 1..(i-1) : j \in DOMAIN inventory_items \cup LockedIds

(* The write and its trigger, up to the commit: the trigger's SELECTs run  *)
(* on the committed tables with the written row in them, and the           *)
(* statements it chose are held by the transaction.                        *)
Begin(w, id, row) ==
  LET items == (id :> row) @@ inventory_items
      new == WithId(id, row)
      st == TriggerStatements(deployed, items, alerts, new)
  IN /\ ~txn[w].open
     /\ id \notin LockedIds
     /\ BagCardinality(alerts) + PendingInserts(Open)
          + BagCardinality(st.insert) <= MaxConcAlerts
     /\ txn' = [v \in Writers |->
                  IF v = w
                  THEN [open |-> TRUE, id |-> id, row |-> row, st |-> st,
                        in_band |->
                           /\ total_quantity(items, new) <= 10
                           /\ existing_alert_count(items, alerts, new) >= 1,
                        overlapped |-> Open # {}]
                  ELSE IF txn[v].open
                  THEN [txn[v] EXCEPT !.overlapped = TRUE]
                  ELSE txn[v]]
     /\ UNCHANGED <<deployed, inventory_items, alerts, last, other_tables,
                    scrap_tables>>

(* INSERT INTO inventory_items (AddItem.tsx handleSubmit), not committed.  *)
BeginInsert(w, caller, row) ==
  /\ \E i \in ItemIds : i \notin DOMAIN inventory_items \cup LockedIds
  /\ can_insert_inventory(caller, row)
  /\ Begin(w, FreeItemIdInFlight, row)

(* UPDATE inventory_items SET quantity = ... WHERE id = id                 *)
(* (ScrapManagement.tsx handleScrapItem), not committed.                   *)
BeginUpdate(w, caller, id, quantity) ==
  /\ id \in DOMAIN inventory_items
  /\ can_update_inventory(caller, inventory_items[id])
  /\ Begin(w, id, [inventory_items[id] EXCEPT !.quantity = quantity])

(* An UPDATE or DELETE that waited for another transaction's lock on a row *)
(* skips the row when that transaction has resolved or deleted it.         *)
SkipRows(st, found) ==
  [st EXCEPT !.update = @ (-) found, !.delete = @ (-) found]

(* COMMIT: the written row and the trigger's statements take effect.       *)
Commit(w) ==
  LET t == txn[w]
      found == t.st.update (+) t.st.delete
  IN /\ t.open
     /\ inventory_items' = (t.id :> t.row) @@ inventory_items
     /\ alerts' = ApplyStatements(alerts, t.st)
     /\ txn' = [v \in Writers |->
                  IF v = w THEN NoTxn
                  ELSE IF txn[v].open
                  THEN [txn[v] EXCEPT !.st = SkipRows(@, found)]
                  ELSE txn[v]]
     /\ UNCHANGED <<deployed, last, other_tables, scrap_tables>>

NextConc ==
  \/ \E w \in Writers, caller \in Users, row \in RacedRows :
        BeginInsert(w, caller, row)
  \/ \E w \in Writers, caller \in Users, id \in ItemIds, q \in Quantities :
        BeginUpdate(w, caller, id, q)
  \/ \E w \in Writers : Commit(w)

SpecConc == Init /\ [][NextConc]_vars

(* ------------------- statements and what the caller sees --------------- *)
(* A statement PostgREST runs for `caller` ends in one of: "ok" (a row     *)
(* written), "no_rows" (the policies' USING left no row for the command:   *)
(* nothing written, error null), "denied" (the new row fails the policies' *)
(* check: error 42501) or "aborted" (the trigger raised).                  *)
InsertOutcome(caller, row) ==
  IF can_insert_inventory(caller, row) THEN "ok" ELSE "denied"

(* An UPDATE whose USING error-reports the rows it hides.                  *)
UpdateOutcome_reports(items, caller, id, row) ==
  IF id \notin DOMAIN items THEN "no_rows"
  ELSE IF ~can_update_inventory(caller, items[id]) THEN "denied"
  ELSE IF ~can_update_inventory(caller, row) THEN "denied"
  ELSE "ok"

(* The UPDATE policies have USING and no WITH CHECK: USING selects the     *)
(* rows the command sees and is also the check of the new row.             *)
UpdateOutcome(items, caller, id, row) ==
  IF id \notin DOMAIN items THEN "no_rows"
  ELSE IF ~can_update_inventory(caller, items[id]) THEN "no_rows"
  ELSE IF ~can_update_inventory(caller, row) THEN "denied"
  ELSE "ok"

DeleteOutcome(items, caller, id) ==
  IF id \notin DOMAIN items THEN "no_rows"
  ELSE IF ~can_delete_inventory(caller, items[id]) THEN "no_rows"
  ELSE "ok"

(* A statement that writes nothing: the caller gets its outcome only.      *)
Rejected(op, caller, id, outcome) ==
  /\ last' = Statement(op, caller, id, outcome, 0)
  /\ UNCHANGED <<inventory_tables, other_tables, scrap_tables>>

InsertStatement(caller, row, raises) ==
  IF InsertOutcome(caller, row) = "ok"
  THEN InsertItem(caller, row, raises)
  ELSE Rejected("insert", caller, NoId, InsertOutcome(caller, row))

UpdateStatement(caller, id, row, raises) ==
  IF UpdateOutcome(inventory_items, caller, id, row) = "ok"
  THEN UpdateItem(caller, id, row, raises)
  ELSE Rejected("update", caller, id,
                UpdateOutcome(inventory_items, caller, id, row))

DeleteStatement(caller, id) ==
  IF DeleteOutcome(inventory_items, caller, id) = "ok"
  THEN DeleteItem(caller, id)
  ELSE Rejected("delete", caller, id,
                DeleteOutcome(inventory_items, caller, id))

(* The rows the callers send in SpecAccess: every group, one quantity.     *)
AccessRows == {r \in Rows : r.quantity = 5}

NextAccess ==
  \/ \E caller \in Users, row \in AccessRows, raises \in BOOLEAN :
        InsertStatement(caller, row, raises)
  \/ \E caller \in Users, id \in ItemIds, row \in AccessRows,
          raises \in BOOLEAN :
        UpdateStatement(caller, id, row, raises)
  \/ \E caller \in Users, id \in ItemIds : DeleteStatement(caller, id)

SpecAccess == Init /\ [][NextAccess]_vars

(* ---------------------------- scrap management ------------------------- *)
(* What the quantity field of the dialog may hold, as its characters.      *)
ScrapQuantityInputs ==
  {<<"2">>, <<"5">>, <<"0">>, <<"a">>, <<"2", ".", "5">>}

DigitChars == <<"0", "1", "2", "3", "4", "5", "6", "7", "8", "9">>

IsDigit(c) == \E i \in DOMAIN DigitChars : DigitChars[i] = c

DigitValue(c) == (CHOOSE i \in DOMAIN DigitChars : DigitChars[i] = c) - 1

RECURSIVE LeadingDigits(_)
LeadingDigits(str) ==
  IF str = <<>> \/ ~IsDigit(Head(str)) THEN <<>>
  ELSE <<Head(str)>> \o LeadingDigits(Tail(str))

RECURSIVE Decimal(_)
Decimal(digits) ==
  IF digits = <<>> THEN 0
  ELSE 10 * Decimal(SubSeq(digits, 1, Len(digits) - 1))
         + DigitValue(digits[Len(digits)])

(* parseInt(string): the number its leading digits spell, whatever comes   *)
(* after them, and NaN when it has none.                                   *)
parseInt(str) ==
  IF LeadingDigits(str) = <<>> THEN [nan |-> TRUE, value |-> 0]
  ELSE [nan |-> FALSE, value |-> Decimal(LeadingDigits(str))]

isNaN(n) == n.nan

(* The test of the quantity without its upper limit.                       *)
ValidQuantity_unlimited(qty, item) == ~isNaN(qty) /\ qty.value >= 1

(* !(isNaN(qty) || qty < 1 || qty > item.quantity)                         *)
ValidQuantity(qty, item) ==
  ~isNaN(qty) /\ qty.value >= 1 /\ qty.value <= item.quantity

(* select("id, name, model, serial_number, department, quantity")          *)
(* .gt("quantity", 0), and .eq("department", userDepartment) for an HOD.   *)
Fetched(items, u) ==
  LET ids == {i \in DOMAIN items :
                /\ items[i].quantity > 0
                /\ has_role(u, "hod") =>
                      DepartmentIsCallers(u, items[i].department)}
  IN [i \in ids |-> [name |-> items[i].name,
                      department |-> items[i].department,
                      quantity |-> items[i].quantity]]

ScrapItem(id, item, qty, u) ==
  [item_id |-> id, item_name |-> item.name, department |-> item.department,
   quantity |-> qty, scrapped_by |-> u]

ScrapCall(op, caller, id, outcome, scrapQuantity) ==
  [op |-> op, caller |-> caller, id |-> id, outcome |-> outcome,
   scrapQuantity |-> scrapQuantity]

(* fetchInventoryItems: the page's copy of the rows it may scrap.          *)
fetchInventoryItems(u) ==
  /\ inventoryItems' = [inventoryItems EXCEPT ![u] = Fetched(inventory_items, u)]
  /\ last' = ScrapCall("fetchInventoryItems", u, NoId, "ok", <<>>)
  /\ UNCHANGED <<inventory_tables, scrap_items, other_tables>>

(* The tables after the statements of handleScrapItem for `qty` units of   *)
(* the copy `item`, and whether the handler reached its success toast.     *)
Scrapped(items, alts, scraps, outcome) ==
  [items |-> items, alerts |-> alts, scraps |-> scraps, outcome |-> outcome]

ScrapStatements(u, id, item, qty, raises) ==
  LET scrap == ScrapItem(id, item, qty, u)
      inserted == scrap_items (+) SetToBag({scrap})
      newQuantity == item.quantity - qty
      row == [inventory_items[id] EXCEPT !.quantity = newQuantity]
      updated == [inventory_items EXCEPT ![id] = row]
  IN IF ~can_insert_scrap(u, scrap)
     THEN Scrapped(inventory_items, alerts, scrap_items, "failed")
     ELSE IF newQuantity = 0
     THEN IF DeleteOutcome(inventory_items, u, id) = "ok"
          THEN Scrapped([i \in DOMAIN inventory_items \ {id} |->
                           inventory_items[i]],
                        OnDeleteSetNull(alerts, id),
                        OnDeleteSetNull(inserted, id), "ok")
          ELSE Scrapped(inventory_items, alerts, inserted, "ok")
     ELSE IF id \notin DOMAIN inventory_items
     THEN Scrapped(inventory_items, alerts, inserted, "ok")
     ELSE IF UpdateOutcome(inventory_items, u, id, row) = "no_rows"
     THEN Scrapped(inventory_items, alerts, inserted, "ok")
     ELSE IF UpdateOutcome(inventory_items, u, id, row) = "denied" \/ raises
     THEN Scrapped(inventory_items, alerts, inserted, "failed")
     ELSE Scrapped(updated,
                   Trigger(deployed, updated, alerts, WithId(id, row)),
                   inserted, "ok")

(* ScrapManagement.tsx handleScrapItem: the item comes from the page's     *)
(* copy; the scrap row is inserted, then the row is deleted or its         *)
(* quantity updated (which runs the trigger; `raises` says whether a       *)
(* statement of the trigger fails), then the page fetches again.           *)
handleScrapItem(u, id, scrapQuantity, raises) ==
  LET qty == parseInt(scrapQuantity)
  IN IF \/ id \notin DOMAIN inventoryItems[u]
        \/ ~ValidQuantity(qty, inventoryItems[u][id])
     THEN /\ ~raises
          /\ last' = ScrapCall("handleScrapItem", u, id, "rejected",
                               scrapQuantity)
          /\ UNCHANGED <<inventory_tables, scrap_tables, other_tables>>
     ELSE LET st == ScrapStatements(u, id, inventoryItems[u][id], qty.value,
                                    raises)
          IN /\ BagCardinality(st.scraps) <= MaxScrapItems
             /\ BagCardinality(st.alerts) <= MaxAlerts
             /\ raises =>
                   /\ st.outcome = "failed"
                   /\ ScrapStatements(u, id, inventoryItems[u][id], qty.value,
                                      FALSE).alerts # alerts
             /\ inventory_items' = st.items
             /\ alerts' = st.alerts
             /\ scrap_items' = st.scraps
             /\ inventoryItems' =
                   IF st.outcome = "ok"
                   THEN [inventoryItems EXCEPT ![u] = Fetched(st.items, u)]
                   ELSE inventoryItems
             /\ last' = ScrapCall("handleScrapItem", u, id, st.outcome,
                                  scrapQuantity)
             /\ UNCHANGED <<deployed, txn, other_tables>>

(* The stock the pages scrap: rows of one group that an admin adds.  A new *)
(* row's id is a fresh uuid, one that no page's copy mentions.            *)
ScrapStock == {r \in Rows : /\ r.name = "Microscope"
                             /\ r.department = "Physics"
                             /\ r.quantity = 5}

NextScrap ==
  \/ \E row \in ScrapStock :
        /\ \E i \in ItemIds : i \notin DOMAIN inventory_items
        /\ \A u \in ScrapUsers : FreeItemId \notin DOMAIN inventoryItems[u]
        /\ InsertItem("admin1", row, FALSE)
  \/ \E u \in ScrapUsers : fetchInventoryItems(u)
  \/ \E u \in ScrapUsers, id \in ItemIds,
          scrapQuantity \in ScrapQuantityInputs, raises \in BOOLEAN :
        handleScrapItem(u, id, scrapQuantity, raises)

SpecScrap == Init /\ [][NextScrap]_vars

(* ----------------------------- grievances ------------------------------ *)
GrievanceIds == 1..MaxGrievances
GrievanceStatuses == {"pending", "in_progress", "resolved", "rejected"}
(* The resolution notes field of the dialog: empty or filled in.           *)
ResolutionNotes == {"", "notes"}

(* The policy without auth.uid() = created_by.                             *)
HODAndStaffCanCreateGrievances_AnyAuthor(uid, row) ==
  has_role(uid, "hod") \/ has_role(uid, "staff")

(* The policy without its test of the role.                                *)
HODAndStaffCanCreateGrievances_AnyRole(uid, row) ==
  uid = row.created_by

HODAndStaffCanCreateGrievances(uid, row) ==
  /\ uid = row.created_by
  /\ (has_role(uid, "hod") \/ has_role(uid, "staff"))

(* A view policy that lets every user with a role row read.                *)
UsersCanViewTheirOwnGrievances_AnyRole(uid, row) ==
  \E r \in user_roles : r.user_id = uid

UsersCanViewTheirOwnGrievances(uid, row) == uid = row.created_by

(* The table without its second SELECT policy.                             *)
AdminsCanViewAllGrievances_Absent(uid, row) == FALSE

AdminsCanViewAllGrievances(uid, row) == has_role(uid, "admin")

(* An update policy that also admits the grievance's creator.              *)
AdminsCanUpdateGrievances_OrCreator(uid, row) ==
  has_role(uid, "admin") \/ uid = row.created_by

AdminsCanUpdateGrievances(uid, row) == has_role(uid, "admin")

can_insert_grievance(uid, row) == HODAndStaffCanCreateGrievances(uid, row)

can_read_grievance(uid, row) ==
  UsersCanViewTheirOwnGrievances(uid, row) \/ AdminsCanViewAllGrievances(uid, row)

can_update_grievance(uid, row) == AdminsCanUpdateGrievances(uid, row)

(* grievances has no policy for DELETE: with row-level security enabled    *)
(* the command is allowed to no caller.                                    *)
can_delete_grievance(uid, row) == FALSE

(* The admin policies of alerts and services.                              *)
AdminsCanManageAlerts(uid, row) == has_role(uid, "admin")

AdminsCanManageServices(uid, row) == has_role(uid, "admin")

(* The row INSERT stores: the columns' defaults around created_by.         *)
NewGrievance(created_by) ==
  [created_by |-> created_by, status |-> "pending",
   resolution_notes |-> NULL, resolved_by |-> NULL, resolved_at |-> NULL]

(* What the caller of a statement on grievances gets back.                 *)
GrievanceStatement(op, caller, id, outcome, rows) ==
  [op |-> op, caller |-> caller, id |-> id, outcome |-> outcome,
   rows |-> rows]

FreeGrievanceId ==
  CHOOSE i \in GrievanceIds : /\ i \notin DOMAIN grievances
                              /\ \A j \in 1..(i-1) : j \in DOMAIN grievances

(* supabase.from("grievances").insert({..., created_by})                   *)
submitGrievance(caller, created_by) ==
  /\ \E i \in GrievanceIds : i \notin DOMAIN grievances
  /\ IF can_insert_grievance(caller, NewGrievance(created_by))
     THEN /\ grievances' = grievances @@
                            (FreeGrievanceId :> NewGrievance(created_by))
          /\ last' = GrievanceStatement("submitGrievance", caller,
                                         FreeGrievanceId, "ok", {})
     ELSE /\ UNCHANGED grievances
          /\ last' = GrievanceStatement("submitGrievance", caller, NoId,
                                         "denied", {})
  /\ UNCHANGED <<inventory_tables, scrap_tables, registration_requests,
               auth_users, account_tables, objects>>

(* updateData of AdminGrievances.tsx applied to a row by `caller`.         *)
UpdateData(row, caller, newStatus, resolutionNotes) ==
  LET noted == [row EXCEPT !.status = newStatus,
                           !.resolution_notes =
                              IF resolutionNotes = "" THEN NULL
                              ELSE resolutionNotes]
  IN IF newStatus = "resolved" \/ newStatus = "rejected"
     THEN [noted EXCEPT !.resolved_by = caller, !.resolved_at = "now"]
     ELSE noted

(* supabase.from("grievances").update(updateData).eq("id", id)            *)
updateGrievance(caller, id, newStatus, resolutionNotes) ==
  /\ IF id \in DOMAIN grievances /\ can_update_grievance(caller, grievances[id])
     THEN /\ grievances' =
                [grievances EXCEPT ![id] =
                    UpdateData(@, caller, newStatus, resolutionNotes)]
          /\ last' = GrievanceStatement("updateGrievance", caller, id,
                                         "ok", {})
     ELSE /\ UNCHANGED grievances
          /\ last' = GrievanceStatement("updateGrievance", caller, id,
                                         "no_rows", {})
  /\ UNCHANGED <<inventory_tables, scrap_tables, registration_requests,
               auth_users, account_tables, objects>>

(* supabase.from("grievances").select("*"): the rows a policy shows.       *)
selectGrievances(caller) ==
  /\ last' = GrievanceStatement("selectGrievances", caller, NoId, "ok",
        {i \in DOMAIN grievances : can_read_grievance(caller, grievances[i])})
  /\ UNCHANGED <<inventory_tables, other_tables, scrap_tables>>

NextGrievances ==
  \/ \E caller \in Users, created_by \in Users :
        submitGrievance(caller, created_by)
  \/ \E caller \in Users, id \in GrievanceIds,
          newStatus \in GrievanceStatuses, notes \in ResolutionNotes :
        updateGrievance(caller, id, newStatus, notes)
  \/ \E caller \in Users : selectGrievances(caller)

SpecGrievances == Init /\ [][NextGrievances]_vars

(* ------------------------ registration requests ----------------------- *)
RequestIds == 1..MaxRequests
Emails == {"user@stocknexus.com", "admin@stocknexus.com"}
(* Who calls: a signed-in user, or nobody signed in (no user behind the    *)
(* Authorization header).                                                  *)
Anonymous == "anonymous"
Callers == Users \cup {Anonymous}

(* The delete policy without its test of the status.                       *)
AdminsCanDeleteRejectedRequests_AnyStatus(uid, row) == has_role(uid, "admin")

AdminsCanDeleteRejectedRequests(uid, row) ==
  has_role(uid, "admin") /\ row.status = "rejected"

AdminsCanUpdateRequests(uid, row) == has_role(uid, "admin")

can_delete_registration_request(uid, row) ==
  AdminsCanDeleteRejectedRequests(uid, row)

can_update_registration_request(uid, row) ==
  AdminsCanUpdateRequests(uid, row)

NewRequest(email) ==
  [email |-> email, status |-> "pending", reviewed_by |-> NULL,
   reviewed_at |-> NULL]

RequestStatement(op, caller, id, outcome) ==
  [op |-> op, caller |-> caller, id |-> id, outcome |-> outcome]

FreeRequestId ==
  CHOOSE i \in RequestIds :
     /\ i \notin DOMAIN registration_requests
     /\ \A j \in 1..(i-1) : j \in DOMAIN registration_requests

(* Auth.tsx handleRegistrationRequest: anyone asks for an account; a       *)
(* second request with the same email is a duplicate.                      *)
handleRegistrationRequest(email) ==
  /\ \E i \in RequestIds : i \notin DOMAIN registration_requests
  /\ IF \E i \in DOMAIN registration_requests :
           registration_requests[i].email = email
     THEN /\ UNCHANGED registration_requests
          /\ last' = RequestStatement("handleRegistrationRequest",
                                      Anonymous, NoId, "duplicate")
     ELSE /\ registration_requests' = registration_requests @@
                                        (FreeRequestId :> NewRequest(email))
          /\ last' = RequestStatement("handleRegistrationRequest",
                                      Anonymous, FreeRequestId, "ok")
  /\ UNCHANGED <<inventory_tables, scrap_tables, grievances, auth_users,
               account_tables, objects>>

(* supabase.from("registration_requests").update(fields).eq("id", id) as   *)
(* `caller`, under the table's policies.                                   *)
UpdateRequestAs(caller, id, fields) ==
  IF /\ id \in DOMAIN registration_requests
     /\ can_update_registration_request(caller, registration_requests[id])
  THEN [registration_requests EXCEPT ![id] = fields @@ @]
  ELSE registration_requests

(* Users.tsx handleApprove: the page signs the account up, inserts the     *)
(* profile and the role, then marks the request.  `request` comes from the *)
(* list the page fetched, so the row may have moved on since; `fails`      *)
(* says whether one of the two inserts returned an error.  The two inserts *)
(* send no id and no user_id: neither row is keyed to the new account.     *)
handleApprove(caller, id, fails) ==
  /\ id \in DOMAIN registration_requests
  /\ LET request == registration_requests[id]
     IN IF request.email \in auth_users
        THEN /\ UNCHANGED <<registration_requests, auth_users>>
             /\ last' = RequestStatement("handleApprove", caller, id, "failed")
        ELSE /\ auth_users' = auth_users \cup {request.email}
             /\ IF fails
                THEN /\ UNCHANGED registration_requests
                     /\ last' = RequestStatement("handleApprove", caller, id,
                                                 "failed")
                ELSE /\ registration_requests' =
                          UpdateRequestAs(caller, id,
                             [status |-> "approved", reviewed_at |-> "now",
                              reviewed_by |-> caller])
                     /\ last' = RequestStatement("handleApprove", caller, id,
                                                 "ok")
  /\ UNCHANGED <<inventory_tables, scrap_tables, grievances, account_tables,
               objects>>

(* Users.tsx handleReject                                                  *)
handleReject(caller, id) ==
  /\ id \in DOMAIN registration_requests
  /\ registration_requests' =
        UpdateRequestAs(caller, id,
           [status |-> "rejected", reviewed_at |-> "now",
            reviewed_by |-> caller])
  /\ last' = RequestStatement("handleReject", caller, id, "ok")
  /\ UNCHANGED <<inventory_tables, scrap_tables, grievances, auth_users,
               account_tables, objects>>

(* Users.tsx handleDelete                                                  *)
handleDelete(caller, id) ==
  /\ id \in DOMAIN registration_requests
  /\ registration_requests' =
        IF can_delete_registration_request(caller, registration_requests[id])
        THEN [i \in DOMAIN registration_requests \ {id} |->
                 registration_requests[i]]
        ELSE registration_requests
  /\ last' = RequestStatement("handleDelete", caller, id, "ok")
  /\ UNCHANGED <<inventory_tables, scrap_tables, grievances, auth_users,
               account_tables, objects>>

(* supabaseClient.auth.getUser(token): the user behind the header, if any. *)
getUser(caller) == IF caller \in Users THEN caller ELSE NULL

(* The fields of an update as sent: a field whose value is undefined is    *)
(* not sent.                                                               *)
Approval(adminUser) ==
  IF adminUser = NULL
  THEN [status |-> "approved", reviewed_at |-> "now"]
  ELSE [status |-> "approved", reviewed_at |-> "now",
        reviewed_by |-> adminUser]

(* The awaited calls of the approve-user handler, in the order it makes    *)
(* them; each one that returns an error ends the handler in its catch.     *)
ApproveSteps_update_first == <<"createUser", "profile", "update", "role">>

ApproveSteps == <<"createUser", "profile", "role", "update">>

(* Where a call of a function may fail: at none of its steps or at one.    *)
Failures == {"none", "createUser", "profile", "role", "update"}

StepIndex(steps, step) == CHOOSE i \in DOMAIN steps : steps[i] = step

(* The step has run and returned no error before the handler stopped.      *)
Reached(steps, step, failure) ==
  failure = "none" \/ StepIndex(steps, step) < StepIndex(steps, failure)

(* auth.admin.createUser refuses an email that has an account.             *)
FailsAt(email, failure) ==
  IF email \in auth_users THEN "createUser" ELSE failure

(* The roles and the value of profiles.approved a new account may get; the *)
(* column's default is not in the sources.                                 *)
RequestedRoles == {"hod", "staff"}

Profile(id, approved) == [id |-> id, approved |-> approved]

(* The department of the request body.                                    *)
BodyDepartment == "Physics"

UserRole(user_id, role, department) ==
  [user_id |-> user_id, role |-> role, department |-> department]

(* The response of a function: 200, or the 500 of its catch.               *)
FunctionCall(op, caller, id, status) ==
  [op |-> op, caller |-> caller, id |-> id,
   outcome |-> IF status = 200 THEN "ok" ELSE "failed", status |-> status]

(* functions/approve-user: the service-role client creates the account,    *)
(* the profile and the role for the email of the body, then marks the      *)
(* request whose id the body names.  A step that fails leaves what the     *)
(* steps before it wrote.                                                  *)
approve_user(caller, requestId, email, requestedRole, approved, failure) ==
  LET failing == FailsAt(email, failure)
      Done(step) == Reached(ApproveSteps, step, failing)
  IN /\ auth_users' = IF Done("createUser") THEN auth_users \cup {email}
                      ELSE auth_users
     /\ profiles' = IF Done("profile")
                    THEN profiles \cup {Profile(email, approved)}
                    ELSE profiles
     /\ account_roles' =
           IF Done("role")
           THEN account_roles \cup {UserRole(email, requestedRole, BodyDepartment)}
           ELSE account_roles
     /\ registration_requests' =
           IF Done("update") /\ requestId \in DOMAIN registration_requests
           THEN [registration_requests EXCEPT ![requestId] =
                    Approval(getUser(caller)) @@ @]
           ELSE registration_requests
     /\ last' = FunctionCall("approve-user", caller, requestId,
                             IF failing = "none" THEN 200 ELSE 500)
     /\ UNCHANGED <<inventory_tables, scrap_tables, grievances, objects>>

(* create-admin (part_001): the service-role client creates the account    *)
(* with the admin role and marks the requests of that email; an error of   *)
(* that last update is logged and the response is still 200.               *)
create_admin(caller, email, approved, failure) ==
  LET failing == FailsAt(email, failure)
      Done(step) == Reached(ApproveSteps, step, failing)
  IN /\ auth_users' = IF Done("createUser") THEN auth_users \cup {email}
                      ELSE auth_users
     /\ profiles' = IF Done("profile")
                    THEN profiles \cup {Profile(email, approved)}
                    ELSE profiles
     /\ account_roles' =
           IF Done("role")
           THEN account_roles \cup {UserRole(email, "admin", BodyDepartment)}
           ELSE account_roles
     /\ registration_requests' =
           IF Done("update")
           THEN [i \in DOMAIN registration_requests |->
                   IF registration_requests[i].email = email
                   THEN [status |-> "approved", reviewed_at |-> "now"]
                          @@ registration_requests[i]
                   ELSE registration_requests[i]]
           ELSE registration_requests
     /\ last' = FunctionCall("create-admin", caller, NoId,
                             IF failing \in {"none", "update"} THEN 200
                             ELSE 500)
     /\ UNCHANGED <<inventory_tables, scrap_tables, grievances, objects>>

NextRegistration ==
  \/ \E email \in Emails : handleRegistrationRequest(email)
  \/ \E caller \in Users, id \in RequestIds, fails \in BOOLEAN :
        handleApprove(caller, id, fails)
  \/ \E caller \in Users, id \in RequestIds : handleReject(caller, id)
  \/ \E caller \in Users, id \in RequestIds : handleDelete(caller, id)
  (* the calls of the two functions in which no step fails *)
  \/ \E caller \in Callers, id \in RequestIds, email \in Emails :
        approve_user(caller, id, email, "staff", TRUE, "none")
  \/ \E caller \in Callers, email \in Emails :
        create_admin(caller, email, TRUE, "none")

SpecRegistration == Init /\ [][NextRegistration]_vars

(* ------------------------- grievance attachments ----------------------- *)
(* storage.objects of the bucket grievance-attachments.  An object's name  *)
(* is its path, a sequence of segments; owner is the user who uploaded it. *)
Files == {"1700000000000.pdf"}

ObjectNames == {<<u, f>> : u \in Users, f \in Files} \cup {<<f>> : f \in Files}

(* storage.foldername(name): the segments before the file's.               *)
foldername(name) == SubSeq(name, 1, Len(name) - 1)

(* (storage.foldername(name))[1], NULL when the name has no folder.        *)
FirstFolder(name) ==
  IF Len(foldername(name)) >= 1 THEN foldername(name)[1] ELSE NULL

UsersCanUploadGrievanceAttachments(uid, object) ==
  has_role(uid, "hod") \/ has_role(uid, "staff")

UsersCanViewTheirOwnGrievanceAttachments(uid, object) ==
  FirstFolder(object.name) # NULL /\ uid = FirstFolder(object.name)

AdminsCanViewAllGrievanceAttachments(uid, object) == has_role(uid, "admin")

can_insert_object(uid, object) ==
  UsersCanUploadGrievanceAttachments(uid, object)

can_read_object(uid, object) ==
  \/ UsersCanViewTheirOwnGrievanceAttachments(uid, object)
  \/ AdminsCanViewAllGrievanceAttachments(uid, object)

Object(name, owner) == [name |-> name, owner |-> owner]

StorageCall(op, caller, name, outcome) ==
  [op |-> op, caller |-> caller, id |-> NoId, name |-> name,
   outcome |-> outcome]

(* supabase.storage.from("grievance-attachments").upload(name, file): the  *)
(* page sends `${user.id}/${Date.now()}.${fileExt}`, the policy takes any  *)
(* name; a name that is taken is refused.                                  *)
upload(caller, name) ==
  /\ IF ~can_insert_object(caller, Object(name, caller))
     THEN /\ UNCHANGED objects
          /\ last' = StorageCall("upload", caller, name, "denied")
     ELSE IF \E o \in objects : o.name = name
     THEN /\ UNCHANGED objects
          /\ last' = StorageCall("upload", caller, name, "exists")
     ELSE /\ objects' = objects \cup {Object(name, caller)}
          /\ last' = StorageCall("upload", caller, name, "ok")
  /\ UNCHANGED <<inventory_tables, scrap_tables, grievances,
                 registration_requests, auth_users, account_tables>>

(* createSignedUrl(name, 3600) and the fetch of the object: the object     *)
(* must be one a SELECT policy shows to the caller.                        *)
createSignedUrl(caller, name) ==
  /\ last' = StorageCall("createSignedUrl", caller, name,
                IF \E o \in objects : o.name = name /\ can_read_object(caller, o)
                THEN "ok" ELSE "not_found")
  /\ UNCHANGED <<inventory_tables, scrap_tables, other_tables>>

NextStorage ==
  \/ \E caller \in Users, name \in ObjectNames : upload(caller, name)
  \/ \E caller \in Users, name \in ObjectNames : createSignedUrl(caller, name)

SpecStorage == Init /\ [][NextStorage]_vars

(* ------------------------------ accounts ------------------------------- *)
(* part_004 handleLogin: sign in with the password, look for the admin     *)
(* role row, and for the others read profiles.approved.  .single() gives   *)
(* data only when exactly one row matches.                                 *)
Login(email, outcome, session) ==
  [op |-> "handleLogin", caller |-> email, id |-> NoId, outcome |-> outcome,
   session |-> session]

handleLogin(email, passwordOk) ==
  LET roleData == {r \in account_roles :
                      r.user_id = email /\ r.role = "admin"}
      isAdmin == Cardinality(roleData) = 1
      profile == {p \in profiles : p.id = email}
      pending == /\ Cardinality(profile) = 1
                 /\ \A p \in profile : ~p.approved
  IN /\ last' = IF ~(email \in auth_users /\ passwordOk)
                THEN Login(email, "failed", FALSE)
                ELSE IF ~isAdmin /\ pending
                THEN Login(email, "signed_out", FALSE)
                ELSE Login(email, "navigated", TRUE)
     /\ UNCHANGED <<inventory_tables, scrap_tables, other_tables>>

(* Who calls the functions in SpecAccounts.                                *)
FunctionCallers == {"admin1"}

NextAccounts ==
  \/ \E email \in Emails : handleRegistrationRequest(email)
  \/ \E caller \in FunctionCallers, id \in RequestIds, email \in Emails,
          role \in RequestedRoles, approved \in BOOLEAN,
          failure \in Failures :
        approve_user(caller, id, email, role, approved, failure)
  \/ \E caller \in FunctionCallers, email \in Emails, approved \in BOOLEAN,
          failure \in Failures :
        create_admin(caller, email, approved, failure)
  \/ \E email \in Emails, passwordOk \in BOOLEAN :
        handleLogin(email, passwordOk)

SpecAccounts == Init /\ [][NextAccounts]_vars

(* ------------------------- shared by the properties -------------------- *)
(* The rows of `items` named and housed like row `id`, by a scan of ids.   *)
RECURSIVE QuantityUpTo(_, _, _)
QuantityUpTo(items, id, n) ==
  IF n = 0 THEN 0
  ELSE QuantityUpTo(items, id, n - 1)
       + (IF /\ n \in DOMAIN items
             /\ items[n].name = items[id].name
             /\ items[n].department = items[id].department
          THEN items[n].quantity ELSE 0)

GroupTotal(items, id) == QuantityUpTo(items, id, MaxItems)

InGroup(items, id, a) ==
  /\ a.item_id \in DOMAIN items
  /\ items[a.item_id].name = items[id].name
  /\ items[a.item_id].department = items[id].department

(* The number of unresolved alerts of a type on the rows grouped with id.  *)
UnresolvedInGroup(items, alts, id, types) ==
  BagCardinality([a \in {x \in BagToSet(alts) : /\ InGroup(items, id, x)
                                               /\ x.is_resolved = FALSE
                                               /\ x.alert_type \in types}
                  |-> alts[a]])

StockTypes == {"low_stock", "out_of_stock"}

(* The step is a committed insert or update of inventory_items.            *)
WroteRow == last'.outcome = "ok" /\ last'.op \in {"insert", "update"}

(* ------------------------------- C1 ------------------------------------ *)
(* C1: at any time, for every (item name, department, alert_type) triple   *)
(* at most one alert row has is_resolved = false.                          *)
C1_AtMostOneUnresolved ==
  \A id \in DOMAIN inventory_items : \A t \in StockTypes :
     UnresolvedInGroup(inventory_items, alerts, id, {t}) <= 1

(* ------------------------------- C2 ------------------------------------ *)
(* C2: the total the trigger used for the last insert or update is the sum *)
(* of quantity over exactly the rows with the written row's name and       *)
(* department, the written row included, and it is 0 over no rows.         *)
C2_AggregateCorrect ==
  /\ (last.outcome = "ok" /\ last.op \in {"insert", "update"}) =>
        /\ last.id \in DOMAIN inventory_items
        /\ last.total_quantity = GroupTotal(inventory_items, last.id)
  /\ \A r \in Rows : total_quantity(<<>>, WithId(1, r)) = 0

C2_Witness ==
  /\ last.outcome = "ok" /\ last.op = "insert"
  /\ last.total_quantity > 0
  /\ \E i \in DOMAIN inventory_items :
        /\ inventory_items[i].name = inventory_items[last.id].name
        /\ inventory_items[i].department # inventory_items[last.id].department
        /\ inventory_items[i].quantity > 0

(* The row NEW of the statement of this step.                              *)
WrittenId == last'.id
WrittenTotal == GroupTotal(inventory_items', WrittenId)

(* No unresolved stock alert is on a row grouped with the written row when *)
(* the trigger runs.                                                       *)
NoneExisting ==
  UnresolvedInGroup(inventory_items', alerts, WrittenId, StockTypes) = 0

(* ------------------------------- C3 ------------------------------------ *)
(* C3: with an unresolved stock alert on the group, an update that leaves  *)
(* the group's total above 10 sets is_resolved and stamps resolved_at on   *)
(* that alert, leaves every other alert as it was and creates none.        *)
C3_ResolvedOnReplenish ==
  [][ (WroteRow /\ last'.op = "update" /\ WrittenTotal > 10 /\ ~NoneExisting)
      => /\ BagCardinality(alerts') = BagCardinality(alerts)
         /\ \A a \in BagToSet(alerts) :
              IF InGroup(inventory_items', WrittenId, a) /\ ~a.is_resolved
              THEN BagIn(Resolved(a), alerts')
              ELSE BagIn(a, alerts')
         /\ UnresolvedInGroup(inventory_items', alerts', WrittenId,
                              StockTypes) = 0 ]_vars

(* ------------------------------- C4 ------------------------------------ *)
(* C4: a write that leaves 0 < total <= 10 with no unresolved stock alert  *)
(* on the group adds exactly one alert, low_stock / medium, carrying the   *)
(* total; rows of 4 and 3 plus a new row of 0 give "Total: 7".             *)
LowStockAlert(id, total) ==
  [item_id |-> id, alert_type |-> "low_stock", severity |-> "medium",
   is_resolved |-> FALSE, resolved_at |-> NULL, message |-> total]

MicroscopeRow(q) ==
  [name |-> "Microscope", department |-> "Bio-tech", quantity |-> q,
   low_stock_threshold |-> 5]

MicroscopeExample ==
  Trigger(deployed, <<MicroscopeRow(4), MicroscopeRow(3), MicroscopeRow(0)>>,
          EmptyBag, WithId(3, MicroscopeRow(0)))
    = SetToBag({LowStockAlert(3, 7)})

C4_LowStockCreated ==
  [][ /\ MicroscopeExample
      /\ (WroteRow /\ WrittenTotal > 0 /\ WrittenTotal <= 10 /\ NoneExisting)
         => alerts' = alerts (+) SetToBag({LowStockAlert(WrittenId,
                                                         WrittenTotal)}) ]_vars

(* ------------------------------- C5 ------------------------------------ *)
(* C5: a write that leaves total = 0 with no unresolved stock alert on the *)
(* group adds exactly one alert: out_of_stock, severity high, on the       *)
(* written row.                                                            *)
OutOfStockAlert(id) ==
  [item_id |-> id, alert_type |-> "out_of_stock", severity |-> "high",
   is_resolved |-> FALSE, resolved_at |-> NULL, message |-> 0]

C5_OutOfStockCreated ==
  [][ (WroteRow /\ WrittenTotal = 0 /\ NoneExisting)
      => alerts' = alerts (+) SetToBag({OutOfStockAlert(WrittenId)}) ]_vars

C5_Witness ==
  /\ last.outcome = "ok" /\ last.op = "update"
  /\ last.total_quantity = 0
  /\ BagIn(OutOfStockAlert(last.id), alerts)
  /\ BagCardinality(alerts) = 2

(* ------------------------------- C6 ------------------------------------ *)
(* C6: with an unresolved stock alert on the group, a write that leaves    *)
(* 0 <= total <= 10 inserts, modifies and removes no alert row.            *)
C6_IdempotentInBand ==
  [][ (WroteRow /\ WrittenTotal >= 0 /\ WrittenTotal <= 10 /\ ~NoneExisting)
      => alerts' = alerts ]_vars

(* ------------------------------- C7 ------------------------------------ *)
(* C7: the alerts the trigger leaves are the same whatever the rows'       *)
(* low_stock_threshold values are.                                         *)
OtherThresholds == {20}

SetThresholds(items, th) ==
  [i \in DOMAIN items |-> [items[i] EXCEPT !.low_stock_threshold = th]]

C7_ThresholdIgnored ==
  [][ WroteRow =>
        \A th \in OtherThresholds :
           LET items == SetThresholds(inventory_items', th)
           IN Trigger(deployed, items, alerts,
                      WithId(WrittenId, items[WrittenId])) = alerts' ]_vars

C7_Witness ==
  /\ last.outcome = "ok" /\ last.total_quantity = 10
  /\ BagIn(LowStockAlert(last.id, 10), alerts)
  /\ inventory_items[last.id].quantity <= inventory_items[last.id].low_stock_threshold

(* ------------------------------- C8 ------------------------------------ *)
(* C8: a write whose trigger fails on alerts leaves both tables as they    *)
(* were, and a write that commits carries the trigger's alert effect.      *)
C8_Atomic ==
  [][ /\ last'.outcome = "aborted"
         => inventory_items' = inventory_items /\ alerts' = alerts
      /\ WroteRow
         => alerts' = Trigger(deployed, inventory_items', alerts,
                              WithId(WrittenId, inventory_items'[WrittenId])) ]_vars

C8_Witness ==
  /\ last.outcome = "aborted"
  /\ DOMAIN inventory_items # {}

(* ------------------------------- C10 ----------------------------------- *)
(* C10: an insert is allowed iff the caller is admin, or is hod and the    *)
(* row's department is the caller's; an HOD of Physics inserts Physics     *)
(* rows and not CSE rows, and staff insert nothing.                        *)
RoleOf(u) ==
  IF \E r \in user_roles : r.user_id = u
  THEN (CHOOSE r \in user_roles : r.user_id = u).role ELSE NULL

DepartmentOf(u) ==
  IF \E r \in user_roles : r.user_id = u
  THEN (CHOOSE r \in user_roles : r.user_id = u).department ELSE NULL

InsertRule(u, department) ==
  \/ RoleOf(u) = "admin"
  \/ RoleOf(u) = "hod" /\ department = DepartmentOf(u)

C10_InsertAllowedIff ==
  /\ \A u \in Users, r \in Rows :
        can_insert_inventory(u, r) <=> InsertRule(u, r.department)
  /\ (last.op = "insert" /\ last.outcome = "ok")
        => InsertRule(last.caller, inventory_items[last.id].department)
  /\ \A r \in Rows :
        /\ r.department = "Physics" => can_insert_inventory("hodPhysics", r)
        /\ r.department = "CSE" => ~can_insert_inventory("hodPhysics", r)
        /\ ~can_insert_inventory("staffPhysics", r)

C10_Witness ==
  /\ last.op = "insert" /\ last.outcome = "ok"
  /\ last.caller = "hodPhysics"
  /\ inventory_items[last.id].department = "Physics"
(* ------------------------------- C11 ----------------------------------- *)
(* C11 as stated: an update or a delete of a row is allowed iff the caller *)
(* is admin, or is hod and the existing row's department is the caller's,  *)
(* whatever the incoming row's department; staff are denied for every row. *)
C11_ExistingRowDecides ==
  \A u \in Users : \A id \in DOMAIN inventory_items : \A r \in AccessRows :
     /\ (UpdateOutcome(inventory_items, u, id, r) = "ok")
           <=> InsertRule(u, inventory_items[id].department)
     /\ (DeleteOutcome(inventory_items, u, id) = "ok")
           <=> InsertRule(u, inventory_items[id].department)
     /\ RoleOf(u) = "staff" =>
           /\ UpdateOutcome(inventory_items, u, id, r) # "ok"
           /\ DeleteOutcome(inventory_items, u, id) # "ok"

(* C11 amended: a delete is allowed iff the caller is admin, or is hod and *)
(* the existing row's department is the caller's; an update is allowed iff *)
(* the caller is admin, or is hod and both the existing and the incoming   *)
(* row's department are the caller's; staff are denied for every row.      *)
C11_UpdateDeleteAllowedIff ==
  /\ \A u \in Users : \A id \in DOMAIN inventory_items : \A r \in AccessRows :
       /\ (UpdateOutcome(inventory_items, u, id, r) = "ok")
             <=> /\ InsertRule(u, inventory_items[id].department)
                 /\ InsertRule(u, r.department)
       /\ (DeleteOutcome(inventory_items, u, id) = "ok")
             <=> InsertRule(u, inventory_items[id].department)
       /\ RoleOf(u) = "staff" =>
             /\ UpdateOutcome(inventory_items, u, id, r) # "ok"
             /\ DeleteOutcome(inventory_items, u, id) # "ok"
  /\ (last.op = "update" /\ last.outcome = "ok")
       => InsertRule(last.caller, inventory_items[last.id].department)
  /\ (last.op \in {"update", "delete"} /\ last.outcome = "ok")
       => RoleOf(last.caller) \in {"admin", "hod"}

C11_Witness ==
  /\ last.op = "update" /\ last.outcome = "denied"
  /\ last.caller = "hodPhysics"
  /\ inventory_items[last.id].department = "Physics"

(* ------------------------------- C12 ----------------------------------- *)
(* C12: a grievance is readable by a caller iff the caller created it or   *)
(* is admin; what a select returns is exactly those rows, so an HOD or a   *)
(* staff member never reads another user's grievance.                      *)
ReadRule(u, row) == row.created_by = u \/ RoleOf(u) = "admin"

C12_ReadableIff ==
  /\ \A u \in Users : \A i \in DOMAIN grievances :
        can_read_grievance(u, grievances[i]) <=> ReadRule(u, grievances[i])
  /\ last.op = "selectGrievances" =>
        /\ last.rows = {i \in DOMAIN grievances :
                           ReadRule(last.caller, grievances[i])}
        /\ RoleOf(last.caller) \in {"hod", "staff"} =>
              \A i \in last.rows : grievances[i].created_by = last.caller

C12_Witness ==
  /\ last.op = "selectGrievances" /\ last.caller = "hodPhysics"
  /\ last.rows # {}
  /\ \E i \in DOMAIN grievances : grievances[i].created_by = "staffPhysics"

(* ------------------------------- C13 ----------------------------------- *)
(* C13: only a statement of an admin changes an existing grievance; no     *)
(* statement of an HOD or staff member, the creator included, changes a    *)
(* field of one.                                                           *)
C13_OnlyAdminUpdates ==
  [][ /\ \A u \in Users : \A i \in DOMAIN grievances :
           can_update_grievance(u, grievances[i]) <=> RoleOf(u) = "admin"
      /\ \A i \in DOMAIN grievances :
           /\ i \in DOMAIN grievances'
           /\ grievances'[i] # grievances[i]
                => /\ last'.op = "updateGrievance" /\ last'.id = i
                   /\ RoleOf(last'.caller) = "admin" ]_vars

C13_Witness ==
  /\ last.op = "updateGrievance" /\ last.outcome = "ok"
  /\ grievances[last.id].status = "resolved"
  /\ grievances[last.id].resolved_by = "admin1"

(* ------------------------------- C14 ----------------------------------- *)
(* C14: an insert of a grievance is allowed only to a caller with role hod *)
(* or staff and only with created_by the caller; no grievance is           *)
(* attributed to a user other than the one who inserted it.                *)
C14_InsertOwnOnly ==
  /\ \A u \in Users, c \in Users :
        can_insert_grievance(u, NewGrievance(c))
          => RoleOf(u) \in {"hod", "staff"} /\ c = u
  /\ (last.op = "submitGrievance" /\ last.outcome = "ok")
        => /\ grievances[last.id].created_by = last.caller
           /\ RoleOf(last.caller) \in {"hod", "staff"}
  /\ \A i \in DOMAIN grievances :
        RoleOf(grievances[i].created_by) \in {"hod", "staff"}

C14_Witness ==
  /\ last.op = "submitGrievance" /\ last.outcome = "ok"
  /\ last.caller = "staffPhysics"
  /\ grievances[last.id].created_by = "staffPhysics"

(* ------------------------------- C15 ----------------------------------- *)
(* C15: a registration request is deleted only by an admin and only while  *)
(* its status is rejected; a pending or approved request is deleted by no  *)
(* caller.                                                                 *)
C15_DeleteRejectedOnly ==
  [][ /\ \A u \in Users : \A i \in DOMAIN registration_requests :
           can_delete_registration_request(u, registration_requests[i])
             <=> /\ RoleOf(u) = "admin"
                 /\ registration_requests[i].status = "rejected"
      /\ \A i \in DOMAIN registration_requests :
           i \notin DOMAIN registration_requests'
             => /\ registration_requests[i].status = "rejected"
                /\ last'.op = "handleDelete" /\ last'.id = i
                /\ RoleOf(last'.caller) = "admin" ]_vars

C15_Witness ==
  /\ last.op = "handleDelete" /\ last.caller = "admin1"
  /\ last.id \notin DOMAIN registration_requests
  /\ \E i \in DOMAIN registration_requests :
        registration_requests[i].status = "approved"

(* ------------------------------- C16 ----------------------------------- *)
(* C16: no step takes a request from approved to another status, and no    *)
(* step takes a request from rejected to approved.                         *)
C16_ApprovedTerminal ==
  [][ \A i \in DOMAIN registration_requests \cap DOMAIN registration_requests' :
        /\ registration_requests[i].status = "approved"
             => registration_requests'[i].status = "approved"
        /\ registration_requests[i].status = "rejected"
             => registration_requests'[i].status # "approved" ]_vars

(* ------------------------------- C17 ----------------------------------- *)
(* C17: a step that takes a request to approved or to rejected leaves it   *)
(* with reviewed_by and reviewed_at both set.                              *)
C17_ReviewStamped ==
  [][ \A i \in DOMAIN registration_requests \cap DOMAIN registration_requests' :
        (/\ registration_requests'[i].status # registration_requests[i].status
         /\ registration_requests'[i].status \in {"approved", "rejected"})
        => /\ registration_requests'[i].reviewed_by # NULL
           /\ registration_requests'[i].reviewed_at # NULL ]_vars

(* ------------------------------- C18 ----------------------------------- *)
(* C18: a step that takes a request out of pending is the call of a caller *)
(* whose role is admin.                                                    *)
C18_AdminOnlyTransitions ==
  [][ \A i \in DOMAIN registration_requests \cap DOMAIN registration_requests' :
        (/\ registration_requests[i].status = "pending"
         /\ registration_requests'[i].status # "pending")
        => RoleOf(last'.caller) = "admin" ]_vars

(* ------------------------------- C19 ----------------------------------- *)
(* C19: for a caller with no user_roles row every role- or department-     *)
(* gated predicate denies (inventory insert, update, delete; scrap read,   *)
(* insert; grievance insert, update; registration-request delete), and no  *)
(* statement of such a caller writes inventory_items.                      *)
NoRoleRow(u) == ~ \E r \in user_roles : r.user_id = u

ScrapRows == [department : Departments]

RequestRows ==
  {[NewRequest(e) EXCEPT !.status = st] :
      e \in Emails, st \in {"pending", "approved", "rejected"}}

C19_FailsClosed ==
  \A u \in {x \in Callers : NoRoleRow(x)} :
     /\ get_user_department(u) = {NULL}
     /\ \A r \in Rows :
          /\ ~can_insert_inventory(u, r)
          /\ ~can_update_inventory(u, r)
          /\ ~can_delete_inventory(u, r)
     /\ \A i \in DOMAIN inventory_items : \A r \in AccessRows :
          /\ UpdateOutcome(inventory_items, u, i, r) # "ok"
          /\ DeleteOutcome(inventory_items, u, i) # "ok"
     /\ \A r \in ScrapRows : ~can_read_scrap(u, r) /\ ~can_insert_scrap(u, r)
     /\ \A c \in Callers :
          /\ ~can_insert_grievance(u, NewGrievance(c))
          /\ ~can_update_grievance(u, NewGrievance(c))
     /\ \A r \in RequestRows : ~can_delete_registration_request(u, r)
     /\ last.caller = u => last.outcome \notin {"ok", "aborted"}

C19_Witness ==
  /\ last.caller = "nobody" /\ last.op = "update"
  /\ last.outcome = "no_rows"
  /\ last.id \in DOMAIN inventory_items

(* ------------------------------- C20 ----------------------------------- *)
(* C20: an update or a delete of a row the caller is not authorized for    *)
(* gives the caller what the same statement gives when the row is not in   *)
(* the table.                                                              *)
WithoutRow(items, id) == [i \in DOMAIN items \ {id} |-> items[i]]

C20_DeniedAsAbsent ==
  /\ \A u \in Users : \A id \in DOMAIN inventory_items :
       /\ ~can_update_inventory(u, inventory_items[id]) =>
             \A r \in AccessRows :
                UpdateOutcome(inventory_items, u, id, r)
                  = UpdateOutcome(WithoutRow(inventory_items, id), u, id, r)
       /\ ~can_delete_inventory(u, inventory_items[id]) =>
             DeleteOutcome(inventory_items, u, id)
               = DeleteOutcome(WithoutRow(inventory_items, id), u, id)
  /\ (/\ last.op \in {"update", "delete"}
      /\ last.outcome # "ok"
      /\ last.id \in DOMAIN inventory_items
      /\ ~can_update_inventory(last.caller, inventory_items[last.id]))
       => last = Statement(last.op, last.caller, last.id, "no_rows", 0)

C20_Witness ==
  /\ last.op = "delete" /\ last.caller = "hodPhysics"
  /\ last.outcome = "no_rows"
  /\ last.id \in DOMAIN inventory_items
  /\ inventory_items[last.id].department = "CSE"

(* ------------------------------- C21 ----------------------------------- *)
(* C21: a step of approve-user or create-admin that creates a user         *)
(* identity leaves that identity with exactly one user_roles row (one role *)
(* and one department), and no identity ever has more than one.            *)
RolesOf(roles, uid) == {r \in roles : r.user_id = uid}

C21_ExactlyOneRole ==
  /\ [](\A e \in Emails : Cardinality(RolesOf(account_roles, e)) <= 1)
  /\ [][ \A e \in Emails :
           (/\ e \notin auth_users /\ e \in auth_users'
            /\ last'.op \in {"approve-user", "create-admin"})
           => Cardinality(RolesOf(account_roles', e)) = 1 ]_vars

(* ------------------------------- C28 ----------------------------------- *)
(* C28: approve-user writes the request only in a call that has created    *)
(* the account, its profile and its role and that answers 200; the profile *)
(* is never created without the account nor the role without the profile;  *)
(* a call in which a step fails answers 500 and leaves the requests as     *)
(* they were.                                                              *)
Created(e) ==
  /\ e \notin auth_users /\ e \in auth_users'
  /\ \E p \in profiles' \ profiles : p.id = e
  /\ \E r \in account_roles' \ account_roles : r.user_id = e

IsAdminAccount(e) == \E r \in account_roles : r.user_id = e /\ r.role = "admin"

C30_ApprovedOnly ==
  last.op = "handleLogin" =>
    /\ (last.outcome = "navigated" /\ ~IsAdminAccount(last.caller))
          => \E p \in profiles : p.id = last.caller /\ p.approved
    /\ (/\ ~IsAdminAccount(last.caller)
        /\ \E p \in profiles : p.id = last.caller /\ ~p.approved)
          => last.outcome # "navigated" /\ ~last.session
    /\ (IsAdminAccount(last.caller) /\ last.outcome # "failed")
          => last.outcome = "navigated"

(* ------------------------------- C22 ----------------------------------- *)
(* C22 as stated: a caller with role admin is allowed every read, insert,  *)
(* update and delete on inventory items, scrap items, alerts, grievances,  *)
(* registration requests and services of any department and status, the    *)
(* insert of a grievance and the delete of a request in any status         *)
(* included.                                                               *)
Admins == {u \in Users : RoleOf(u) = "admin"}

AdminManagesStock(u) ==
  /\ \A r \in Rows :
        /\ can_insert_inventory(u, r)
        /\ can_update_inventory(u, r)
        /\ can_delete_inventory(u, r)
  /\ \A i \in DOMAIN inventory_items : \A r \in Rows :
        /\ UpdateOutcome(inventory_items, u, i, r) = "ok"
        /\ DeleteOutcome(inventory_items, u, i) = "ok"
  /\ \A r \in ScrapRows :
        /\ can_read_scrap(u, r) /\ can_insert_scrap(u, r)
        /\ AdminsCanManageAllScrapItems(u, r)
        /\ AdminsCanManageAlerts(u, r)
        /\ AdminsCanManageServices(u, r)

AdminReadsAndUpdates(u) ==
  /\ \A c \in Users, st \in GrievanceStatuses :
        /\ can_read_grievance(u, [NewGrievance(c) EXCEPT !.status = st])
        /\ can_update_grievance(u, [NewGrievance(c) EXCEPT !.status = st])
  /\ \A r \in RequestRows : can_update_registration_request(u, r)
  /\ (last.caller = u /\ last.op = "selectGrievances")
        => last.rows = DOMAIN grievances
  /\ (last.caller = u /\ last.op = "updateGrievance"
                      /\ last.id \in DOMAIN grievances)
        => last.outcome = "ok"

C23_FetchOwnUploads ==
  /\ \A u \in Users : \A o \in objects :
        /\ can_read_object(u, o)
              <=> (FirstFolder(o.name) = u \/ RoleOf(u) = "admin")
        /\ (RoleOf(u) # "admin" /\ can_read_object(u, o)) => o.owner = u
  /\ (last.op = "createSignedUrl" /\ last.outcome = "ok"
                                  /\ RoleOf(last.caller) # "admin")
        => \E o \in objects : o.name = last.name /\ o.owner = last.caller

(* ------------------------------- C29 ----------------------------------- *)
(* C29: an update by an HOD that moves a row of the HOD's department to    *)
(* another department is denied; a statement of an HOD leaves every row it *)
(* writes in the HOD's department and leaves the rows of the other         *)
(* departments as they were.                                               *)
HODs == {u \in Users : RoleOf(u) = "hod"}

RowsElsewhere(items, u) ==
  {<<i, items[i]>> : i \in {j \in DOMAIN items :
                              items[j].department # DepartmentOf(u)}}

C29_HODKeepsDepartment ==
  [][ \A u \in HODs :
        /\ \A i \in DOMAIN inventory_items : \A r \in AccessRows :
              (/\ inventory_items[i].department = DepartmentOf(u)
               /\ r.department # DepartmentOf(u))
              => UpdateOutcome(inventory_items, u, i, r) = "denied"
        /\ last'.caller = u =>
              /\ RowsElsewhere(inventory_items', u)
                    = RowsElsewhere(inventory_items, u)
              /\ (last'.op = "update" /\ last'.outcome = "ok")
                    => inventory_items'[last'.id].department
                          = DepartmentOf(u) ]_vars

C29_Witness ==
  /\ last.op = "update" /\ last.outcome = "denied"
  /\ last.caller \in HODs
  /\ inventory_items[last.id].department = DepartmentOf(last.caller)
  /\ \E j \in DOMAIN inventory_items :
        inventory_items[j].department # DepartmentOf(last.caller)

(* ------------------------------- C25 ----------------------------------- *)
(* C25: after any sequence of inserts, updates and deletes, every group    *)
(* that still has a row and whose total quantity is at most 10 has an      *)
(* unresolved low_stock or out_of_stock alert.                             *)
C25_LowGroupsAlerted ==
  \A id \in DOMAIN inventory_items :
     GroupTotal(inventory_items, id) <= 10
       => UnresolvedInGroup(inventory_items, alerts, id, StockTypes) >= 1

(* ------------------------------- C24 ----------------------------------- *)
(* C24: a successful scrap of q units of a row, q an integer in            *)
(* 1..row.quantity, adds one scrap row of quantity q with the row's name   *)
(* and department and sets the row's quantity to (old - q), or deletes the *)
(* row when that is 0; a q that is not an integer in 1..row.quantity is    *)
(* rejected, with no scrap row created and the row unchanged.              *)
IsInteger(str) == str # <<>> /\ \A i \in DOMAIN str : IsDigit(str[i])

InRange(str, row) ==
  IsInteger(str) /\ Decimal(str) >= 1 /\ Decimal(str) <= row.quantity

ScrapOf(id, row, q, u) ==
  scrap_items (+) SetToBag({ScrapItem(id, row, q, u)})

C24_ScrapDecrements ==
  [][ (last'.op = "handleScrapItem" /\ last'.id \in DOMAIN inventory_items) =>
        LET id == last'.id
            row == inventory_items[id]
            q == Decimal(last'.scrapQuantity)
        IN /\ (last'.outcome = "ok" /\ InRange(last'.scrapQuantity, row)) =>
                IF row.quantity - q > 0
                THEN /\ inventory_items' =
                          [inventory_items EXCEPT ![id].quantity = @ - q]
                     /\ scrap_items' = ScrapOf(id, row, q, last'.caller)
                ELSE /\ inventory_items' = WithoutRow(inventory_items, id)
                     /\ scrap_items' =
                          OnDeleteSetNull(ScrapOf(id, row, q, last'.caller), id)
           /\ ~InRange(last'.scrapQuantity, row) =>
                /\ last'.outcome = "rejected"
                /\ scrap_items' = scrap_items
                /\ inventory_items' = inventory_items ]_vars

(* ------------------------------- C26 ----------------------------------- *)
(* C26: a scrap by a page whose copy of the quantity may be stale          *)
(* conserves the stock: what remains in inventory_items plus what          *)
(* scrap_items records is the same after the scrap as before it.           *)
StockTotal(items) == SumQuantity(items, DOMAIN items)

RECURSIVE ScrappedUnits(_, _)
ScrappedUnits(scraps, rows) ==
  IF rows = {} THEN 0
  ELSE LET r == CHOOSE x \in rows : TRUE
       IN r.quantity * scraps[r] + ScrappedUnits(scraps, rows \ {r})

ScrapTotal(scraps) == ScrappedUnits(scraps, BagToSet(scraps))

C26_StockConserved ==
  [][ (last'.op = "handleScrapItem" /\ last'.outcome = "ok") =>
        StockTotal(inventory_items') + ScrapTotal(scrap_items')
          = StockTotal(inventory_items) + ScrapTotal(scrap_items) ]_vars

(* ------------------------------- C27 ----------------------------------- *)
(* C27: after any interleaving of scraps no row of inventory_items has a   *)
(* quantity below 0 and every row of scrap_items has a quantity of at      *)
(* least 1.                                                                *)
C27_QuantitiesInRange ==
  /\ \A i \in DOMAIN inventory_items : inventory_items[i].quantity >= 0
  /\ \A r \in BagToSet(scrap_items) : r.quantity >= 1

C27_Witness ==
  /\ last.op = "handleScrapItem" /\ last.outcome = "ok"
  /\ \E r1, r2 \in BagToSet(scrap_items) : r1.scrapped_by # r2.scrapped_by
  /\ \E i \in DOMAIN inventory_items : inventory_items[i].quantity = 1

(* ------------------------------- C9 ------------------------------------ *)
(* C9: with two writers running the trigger concurrently, a group never    *)
(* has more than two unresolved stock alerts, and a later write (one that  *)
(* overlaps no other) that saw an unresolved alert and a total in 0..10    *)
(* leaves the group with no more unresolved alerts than it had.            *)
Commits(w) == txn[w].open /\ ~txn'[w].open

C9_AtMostOneDuplicate ==
  /\ [](\A id \in DOMAIN inventory_items :
          UnresolvedInGroup(inventory_items, alerts, id, StockTypes) <= 2)
  /\ [][ \A w \in Writers :
           (/\ Commits(w) /\ ~txn[w].overlapped
            /\ txn[w].in_band)
           => UnresolvedInGroup(inventory_items', alerts', txn[w].id,
                                StockTypes)
                <= UnresolvedInGroup(inventory_items', alerts, txn[w].id,
                                     StockTypes) ]_vars

C9_Witness ==
  /\ Open = {}
  /\ \E id \in DOMAIN inventory_items :
        UnresolvedInGroup(inventory_items, alerts, id, StockTypes) = 2
====
